---- MODULE Spec2Model ----
(***************************************************************************)
(* Model of src/tools/screen.ts: the rotating screenshot counter, the      *)
(* region scaling and validation of captureRegion, and the staging-file    *)
(* life cycle (capture, read, unlink, cleanup in the catch block) of       *)
(* captureScreen and captureRegion, run by tasks interleaved at the        *)
(* awaits of one cooperative scheduler: one action per stretch of code     *)
(* between two awaits.                                                     *)
(***************************************************************************)
EXTENDS Integers, Sequences, FiniteSets, TLC

\* ------------------------------------------------------------ constants

MAX_SCREENSHOTS == 20

\* ------------------------------------------------------------ bounds

\* counter advances explored under Spec (more than one full cycle)
MaxAdvances == 21
\* counter advances explored under SpecResolve and under SpecFaults
MaxResolveAdvances == 1
MaxFaultAdvances == 2
\* failures the environment (screen queries, mkdir, capture primitive, file
\* system) injects under SpecFaults
MaxFaults == 2
\* logical region inputs: left, top in -1..MaxCoord, width, height in 0..MaxSize
MaxCoord == 1
MaxSize == 3
\* physical sizes the resolution probe may report: 1..MaxPhys each way
MaxPhys == 4

Tasks == {1, 2}

Formats == {"png", "jpeg"}

\* ------------------------------------------------------------ values

NoRegion == [left |-> 0, top |-> 0, width |-> 0, height |-> 0]

NoDims == [width |-> 0, height |-> 0, num |-> 1, den |-> 1]

NoSize == [width |-> 0, height |-> 0]

NoPath == [name |-> <<>>, ext |-> "none"]

NoError == [kind |-> "none", size |-> 0, at |-> 0, screen |-> 0, max |-> 0]

NoResult == [prefix |-> "none", message |-> NoError]

\* Logical sizes screen.width()/screen.height() report.
BaseSizes == {2, 3}

\* A display: the logical size, the platform, and what the darwin resolution
\* probe finds (probed = FALSE: the probe threw or its output has no match).
Displays ==
  { [bw |-> bw, bh |-> bh, darwin |-> dw, probed |-> FALSE, aw |-> 0, ah |-> 0] :
      bw \in BaseSizes, bh \in BaseSizes, dw \in BOOLEAN }
  \cup
  { [bw |-> bw, bh |-> bh, darwin |-> TRUE, probed |-> TRUE, aw |-> aw, ah |-> ah] :
      bw \in BaseSizes, bh \in BaseSizes, aw \in 1..MaxPhys, ah \in 1..MaxPhys }

\* The display of the interleaving specifications: a Retina display.
SpecDisplays ==
  { [bw |-> 2, bh |-> 2, darwin |-> TRUE, probed |-> TRUE, aw |-> 4, ah |-> 4] }

AllRegions ==
  { [left |-> l, top |-> t, width |-> w, height |-> h] :
      l \in -1..MaxCoord, t \in -1..MaxCoord, w \in 0..MaxSize, h \in 0..MaxSize }

\* The regions of the interleaving specifications: one valid, one with a
\* negative coordinate, one empty, one too wide, one too high.
SpecRegions ==
  { [left |-> 0, top |-> 0, width |-> 2, height |-> 2],
    [left |-> -1, top |-> 0, width |-> 2, height |-> 2],
    [left |-> 0, top |-> 0, width |-> 0, height |-> 2],
    [left |-> 2, top |-> 0, width |-> 3, height |-> 2],
    [left |-> 0, top |-> 1, width |-> 2, height |-> 3] }

\* ------------------------------------------------------------ state

VARIABLES
  screenshotCounter,  \* the module-level counter
  display,            \* the display the process runs on
  dirExists,          \* the staging directory exists
  files,              \* staged files: [name, ext, by], by = seq of the writer
  pc,                 \* each task's position in its call: the await it is at,
                      \* or the return of an async function it is resumed from
  op,                 \* "screen", "region" or "none"
  region,             \* captureRegion's argument
  dims,               \* baseWidth, baseHeight, then screenWidth, screenHeight,
                      \* scale (num / den); captureScreen's width and height
  scaledRegion,       \* captureRegion's scaledRegion
  format,             \* the format argument
  filename,           \* the local filename, as its two digits
  filepath,           \* the local filepath (NoPath: "")
  error,              \* the error thrown inside the try block
  result,             \* what the call gave its caller
  advances,           \* history: counter advances so far
  seq,                \* history: which advance this call made (0: none)
  incs,               \* history: counter changes made by this call
  seen,               \* history: what the awaits of lines 129 and 135 answered
  invoked,            \* history: times this call called the capture primitive
  partialWrite,       \* history: the primitive wrote a file and then failed
  cleanupTried,       \* history: the catch block attempted the unlink
  anyFailed,          \* history: some call has thrown
  faults              \* injected failures so far

diskVars == << dirExists, files >>

rotVars == << screenshotCounter, filename, advances, seq, incs >>

argVars == << op, region, format >>

scaleVars == << dims, scaledRegion, seen >>

outVars == << filepath, error, result >>

histVars == << invoked, partialWrite, cleanupTried, anyFailed >>

vars ==
  << display, diskVars, rotVars, argVars, scaleVars, outVars, histVars, pc,
     faults >>

\* ------------------------------------------------------------ the counter

\* (screenshotCounter % MAX_SCREENSHOTS) + 1
NextCounter(c) == (c % MAX_SCREENSHOTS) + 1

\* String(n): the decimal digits of n >= 0
RECURSIVE Digits(_)
Digits(n) == IF n < 10 THEN <<n>> ELSE Append(Digits(n \div 10), n % 10)

\* s.padStart(len, "0")
RECURSIVE PadStart(_, _)
PadStart(s, len) == IF Len(s) >= len THEN s ELSE PadStart(<<0>> \o s, len)

\* Faulty variant of Filename: the padStart left out.
FilenameUnpadded(c) == Digits(c)

\* `screenshot_${String(screenshotCounter).padStart(2, "0")}`, as its digits
Filename(c) == PadStart(Digits(c), 2)

\* format === CaptureFormat.PNG ? FileType.PNG : FileType.JPG
FileTypeOf(fmt) == IF fmt = "png" THEN ".png" ELSE ".jpg"

\* ------------------------------------------------------------ doubles

\* The code divides in IEEE 754 doubles: scale = actualWidth / baseWidth is
\* the double nearest to the quotient, and field / scale the double nearest
\* to the quotient by that double.  The significands are natural numbers of
\* 53 bits, kept as limbs of 15 bits, least significant first.
Limb == 32768

RECURSIVE BigNorm(_)
BigNorm(X) ==
  IF X = <<>> THEN <<>>
  ELSE IF X[Len(X)] = 0 THEN BigNorm(SubSeq(X, 1, Len(X) - 1)) ELSE X

RECURSIVE BigOfNat(_)
BigOfNat(n) == IF n = 0 THEN <<>> ELSE <<n % Limb>> \o BigOfNat(n \div Limb)

RECURSIVE BigToNat(_)
BigToNat(X) == IF X = <<>> THEN 0 ELSE X[1] + Limb * BigToNat(Tail(X))

BigLimb(X, i) == IF i <= Len(X) THEN X[i] ELSE 0

\* X >= Y, comparing limbs from the most significant down
RECURSIVE BigGeFrom(_, _, _)
BigGeFrom(X, Y, i) ==
  IF i = 0 THEN TRUE
  ELSE IF BigLimb(X, i) # BigLimb(Y, i) THEN BigLimb(X, i) > BigLimb(Y, i)
  ELSE BigGeFrom(X, Y, i - 1)

BigGe(X, Y) == BigGeFrom(X, Y, IF Len(X) > Len(Y) THEN Len(X) ELSE Len(Y))

\* X + Y + carry, from limb i up
RECURSIVE BigAddFrom(_, _, _, _)
BigAddFrom(X, Y, i, carry) ==
  IF i > Len(X) /\ i > Len(Y)
    THEN IF carry = 0 THEN <<>> ELSE <<carry>>
    ELSE LET s == BigLimb(X, i) + BigLimb(Y, i) + carry
         IN  <<s % Limb>> \o BigAddFrom(X, Y, i + 1, s \div Limb)

BigAdd(X, Y) == BigAddFrom(X, Y, 1, 0)

\* X - Y - borrow for X >= Y, from limb i up
RECURSIVE BigSubFrom(_, _, _, _)
BigSubFrom(X, Y, i, borrow) ==
  IF i > Len(X) THEN <<>>
  ELSE LET s == X[i] - BigLimb(Y, i) - borrow
       IN  IF s < 0 THEN <<s + Limb>> \o BigSubFrom(X, Y, i + 1, 1)
           ELSE <<s>> \o BigSubFrom(X, Y, i + 1, 0)

BigSub(X, Y) == BigNorm(BigSubFrom(X, Y, 1, 0))

\* X * m + carry for a small m, from limb i up
RECURSIVE BigMulSmallFrom(_, _, _, _)
BigMulSmallFrom(X, m, i, carry) ==
  IF i > Len(X)
    THEN IF carry = 0 THEN <<>> ELSE <<carry>>
    ELSE LET s == X[i] * m + carry
         IN  <<s % Limb>> \o BigMulSmallFrom(X, m, i + 1, s \div Limb)

BigMulSmall(X, m) == BigNorm(BigMulSmallFrom(X, m, 1, 0))

BigDouble(X) == BigMulSmall(X, 2)

BigOdd(X) == X # <<>> /\ X[1] % 2 = 1

RECURSIVE Pow2(_)
Pow2(k) == IF k = 0 THEN 1 ELSE 2 * Pow2(k - 1)

RECURSIVE BitLen(_)
BitLen(n) == IF n = 0 THEN 0 ELSE 1 + BitLen(n \div 2)

\* X * 2^k: whole limbs first, the remaining bits by a multiplication
BigShl(X, k) ==
  IF X = <<>> THEN <<>>
  ELSE [i \in 1..(k \div 15) |-> 0] \o BigMulSmall(X, Pow2(k % 15))

BigBitLen(X) ==
  IF X = <<>> THEN 0 ELSE 15 * (Len(X) - 1) + BitLen(X[Len(X)])

\* The largest digit d, d0 <= d < d0 + 2^(bit+1), with B * d <= R
RECURSIVE QuotDigit(_, _, _, _)
QuotDigit(R, B, bit, d0) ==
  IF bit < 0 THEN d0
  ELSE LET d1 == d0 + Pow2(bit)
       IN  IF BigGe(R, BigMulSmall(B, d1)) THEN QuotDigit(R, B, bit - 1, d1)
           ELSE QuotDigit(R, B, bit - 1, d0)

\* The element of a one-element set.  { e(x) : x \in {v} } evaluates v once
\* and binds x to its value.
The(S) == CHOOSE r \in S : TRUE

\* Quotient and remainder of A by B > 0, one limb of A at a time
RECURSIVE BigDivMod(_, _)
BigDivMod(A, B) ==
  IF A = <<>> THEN [q |-> <<>>, r |-> <<>>]
  ELSE The({ The({ The({ [q |-> BigNorm(<<d>> \o h.q),
                          r |-> BigSub(r2, BigMulSmall(B, d))] :
                       d \in {QuotDigit(r2, B, 14, 0)} }) :
                  r2 \in {BigNorm(<<A[1]>> \o h.r)} }) :
             h \in {BigDivMod(Tail(A), B)} })

\* Quotient q and remainder r of P * 2^k by Q (of P by Q * 2^-k for k < 0),
\* with the divisor den used
ShiftedDiv(P, Q, k) ==
  The({ The({ [q |-> d.q, r |-> d.r, den |-> den, k |-> k] :
              d \in {BigDivMod(IF k >= 0 THEN BigShl(P, k) ELSE P, den)} }) :
        den \in {IF k >= 0 THEN Q ELSE BigShl(Q, 0 - k)} })

\* The quotient of d rounded to nearest, ties to even
NearestEven(d) ==
  The({ IF (IF twice = d.den THEN BigOdd(d.q) ELSE BigGe(twice, d.den))
          THEN BigAdd(d.q, <<1>>)
          ELSE d.q :
        twice \in {BigDouble(d.r)} })

\* The double nearest to (P * 2^pe) / (Q * 2^qe), ties to even, for P, Q > 0:
\* a significand m of 53 bits and an exponent e, the value being m * 2^e.
DoubleQuot(P, pe, Q, qe) ==
  The({ The({ [m |-> NearestEven(d), e |-> pe - qe - d.k] :
              d \in {IF BigBitLen(d0.q) > 53
                       THEN ShiftedDiv(P, Q, d0.k - 1) ELSE d0} }) :
        d0 \in {ShiftedDiv(P, Q, 53 - (BigBitLen(P) - BigBitLen(Q)))} })

\* Math.round of the double m * 2^e > 0: floor(x + 1/2)
RoundPositive(m, e) ==
  IF e >= 0 THEN BigToNat(BigShl(m, e))
  ELSE BigToNat(BigDivMod(BigAdd(BigDouble(m), BigShl(<<1>>, 0 - e)),
                          BigShl(<<1>>, 1 - e)).q)

\* Math.round of the double -(m * 2^e) < 0: ties go up, and -0.5 gives -0
RoundNegative(m, e) ==
  IF e >= 0 THEN 0 - BigToNat(BigShl(m, e))
  ELSE The({ IF BigGe(t.half, t.twice) THEN 0
             ELSE 0 - BigToNat(BigDivMod(
                        BigAdd(BigSub(t.twice, t.half), BigSub(t.one, <<1>>)),
                        t.one).q) :
             t \in {[twice |-> BigDouble(m), half |-> BigShl(<<1>>, 0 - e),
                     one |-> BigShl(<<1>>, 1 - e)]} })

\* Math.round(n / scale) for the double scale = num / den, n an integer and
\* num, den > 0 integers
MathRoundDiv(n, num, den) ==
  IF n = 0 THEN 0
  ELSE The({ The({ IF n < 0 THEN RoundNegative(q.m, q.e)
                   ELSE RoundPositive(q.m, q.e) :
                   q \in {DoubleQuot(BigOfNat(IF n < 0 THEN 0 - n ELSE n), 0,
                                     scale.m, scale.e)} }) :
             scale \in {DoubleQuot(BigOfNat(num), 0, BigOfNat(den), 0)} })

\* The scales and fields of the bounds, computed once
Scales ==
  { <<1, 1>> } \cup { <<aw, bw>> : aw \in 1..MaxPhys, bw \in BaseSizes }

Fields ==
  (-1)..(IF MaxCoord > MaxSize THEN MaxCoord ELSE MaxSize)

Rounded ==
  [n \in Fields, s \in Scales |-> MathRoundDiv(n, s[1], s[2])]

\* Math.round(n / scale) with scale = num / den
RoundDiv(n, num, den) ==
  IF n \in Fields /\ <<num, den>> \in Scales
    THEN Rounded[n, <<num, den>>]
    ELSE MathRoundDiv(n, num, den)

\* ------------------------------------------------------------ the region

\* What getActualScreenDimensions returns for the base size it read: the
\* probed resolution and scale = actualWidth / baseWidth (the fraction
\* num / den) on darwin when the probe's output matches, the base size and
\* scale 1 otherwise.
ActualDimensions(d, baseWidth, baseHeight, probeThrew) ==
  IF d.darwin /\ d.probed /\ ~probeThrew
    THEN [width |-> d.aw, height |-> d.ah, num |-> d.aw, den |-> baseWidth]
    ELSE [width |-> baseWidth, height |-> baseHeight, num |-> 1, den |-> 1]

ScaleRegion(r, dm) ==
  [left |-> RoundDiv(r.left, dm.num, dm.den),
   top |-> RoundDiv(r.top, dm.num, dm.den),
   width |-> RoundDiv(r.width, dm.num, dm.den),
   height |-> RoundDiv(r.height, dm.num, dm.den)]

Err(kind) == [kind |-> kind, size |-> 0, at |-> 0, screen |-> 0, max |-> 0]

\* The two checks before the first await of the validation
SignError(sr) ==
  IF sr.left < 0 \/ sr.top < 0 THEN Err("negative")
  ELSE IF sr.width <= 0 \/ sr.height <= 0 THEN Err("dimensions")
  ELSE NoError

\* The check against the answer w of await screen.width(); the message
\* quotes the arguments and the probed screenWidth
WidthError(r, sr, dm, w) ==
  IF sr.left + sr.width > w
    THEN [kind |-> "width", size |-> r.width, at |-> r.left,
          screen |-> dm.width, max |-> dm.width - r.left]
    ELSE NoError

\* The check against the answer h of await screen.height()
HeightError(r, sr, dm, h) ==
  IF sr.top + sr.height > h
    THEN [kind |-> "height", size |-> r.height, at |-> r.top,
          screen |-> dm.height, max |-> dm.height - r.top]
    ELSE NoError

ValidationKinds == {"negative", "dimensions", "width", "height"}

\* Faulty variant of CleanupMessage: the unlink of the catch block is not
\* wrapped in its own try, and its failure replaces the error caught.
CleanupMessageOverride(caught, cleanupFailed) ==
  IF cleanupFailed THEN Err("cleanup") ELSE caught

\* The message the catch block puts in the error it throws: that of the
\* error caught; a failure of the unlink inside it is swallowed.
CleanupMessage(caught, cleanupFailed) == caught

Prefix(o) ==
  IF o = "screen" THEN "Failed to capture screen: "
  ELSE "Failed to capture screen region: "

\* ------------------------------------------------------------ file system

Exists(fs, path) == \E f \in fs : f.name = path.name /\ f.ext = path.ext

Remove(fs, path) == { f \in fs : ~(f.name = path.name /\ f.ext = path.ext) }

WriteFile(fs, path, by) ==
  Remove(fs, path) \cup {[name |-> path.name, ext |-> path.ext, by |-> by]}

\* ------------------------------------------------------------ initial states

InitWith(ds) ==
  /\ screenshotCounter = 0
  /\ display \in ds
  /\ dirExists = FALSE
  /\ files = {}
  /\ pc = [p \in Tasks |-> "idle"]
  /\ op = [p \in Tasks |-> "none"]
  /\ region = [p \in Tasks |-> NoRegion]
  /\ dims = [p \in Tasks |-> NoDims]
  /\ scaledRegion = [p \in Tasks |-> NoRegion]
  /\ format = [p \in Tasks |-> "png"]
  /\ filename = [p \in Tasks |-> <<>>]
  /\ filepath = [p \in Tasks |-> NoPath]
  /\ error = [p \in Tasks |-> NoError]
  /\ result = [p \in Tasks |-> NoResult]
  /\ advances = 0
  /\ seq = [p \in Tasks |-> 0]
  /\ incs = [p \in Tasks |-> 0]
  /\ seen = [p \in Tasks |-> NoSize]
  /\ invoked = [p \in Tasks |-> 0]
  /\ partialWrite = [p \in Tasks |-> FALSE]
  /\ cleanupTried = [p \in Tasks |-> FALSE]
  /\ anyFailed = FALSE
  /\ faults = 0

Init == InitWith(SpecDisplays)

InitResolve == InitWith(Displays)

\* ------------------------------------------------------------ actions

\* What a specification lets the callers and the environment do: the regions
\* and formats callers pass, the counter advances and injected failures
\* explored, and whether a failing capture primitive may leave a file.
Env(regions, formats, lim, maxFaults, leaves) ==
  [regions |-> regions, formats |-> formats, lim |-> lim,
   maxFaults |-> maxFaults, leaves |-> leaves]

CanCall(p) == pc[p] \in {"idle", "returned", "thrown"}

\* The locals and the history of a call that begins.
BeginCall(p, o, r, fmt) ==
  /\ op' = [op EXCEPT ![p] = o]
  /\ region' = [region EXCEPT ![p] = r]
  /\ format' = [format EXCEPT ![p] = fmt]
  /\ dims' = [dims EXCEPT ![p] = NoDims]
  /\ scaledRegion' = [scaledRegion EXCEPT ![p] = NoRegion]
  /\ seen' = [seen EXCEPT ![p] = NoSize]
  /\ filepath' = [filepath EXCEPT ![p] = NoPath]
  /\ error' = [error EXCEPT ![p] = NoError]
  /\ result' = [result EXCEPT ![p] = NoResult]
  /\ invoked' = [invoked EXCEPT ![p] = 0]
  /\ partialWrite' = [partialWrite EXCEPT ![p] = FALSE]
  /\ cleanupTried' = [cleanupTried EXCEPT ![p] = FALSE]

\* The locals of a call that ends go out of scope.
EndCall(p) ==
  /\ region' = [region EXCEPT ![p] = NoRegion]
  /\ dims' = [dims EXCEPT ![p] = NoDims]
  /\ scaledRegion' = [scaledRegion EXCEPT ![p] = NoRegion]
  /\ seen' = [seen EXCEPT ![p] = NoSize]
  /\ format' = [format EXCEPT ![p] = "png"]
  /\ filename' = [filename EXCEPT ![p] = <<>>]
  /\ filepath' = [filepath EXCEPT ![p] = NoPath]
  /\ error' = [error EXCEPT ![p] = NoError]
  /\ seq' = [seq EXCEPT ![p] = 0]

\* screenshotCounter = (screenshotCounter % MAX_SCREENSHOTS) + 1;
\* const filename = ...: one synchronous stretch
AdvanceRotator(p, before) ==
  /\ screenshotCounter' = NextCounter(screenshotCounter)
  /\ filename' = [filename EXCEPT ![p] = Filename(screenshotCounter')]
  /\ advances' = advances + 1
  /\ seq' = [seq EXCEPT ![p] = advances']
  /\ incs' = [incs EXCEPT ![p] =
                 before + (IF screenshotCounter' # screenshotCounter THEN 1 ELSE 0)]

\* An error is thrown inside the try block: control goes to the catch block.
Fail(p, e) ==
  /\ error' = [error EXCEPT ![p] = e]
  /\ pc' = [pc EXCEPT ![p] = "catch"]

\* The environment makes the awaited operation reject.
Fault(env) ==
  /\ faults < env.maxFaults
  /\ faults' = faults + 1

\* The logical resolution changes while the process runs.
ChangeResolution ==
  /\ \E w \in BaseSizes, h \in BaseSizes :
       /\ << w, h >> # << display.bw, display.bh >>
       /\ display' = [display EXCEPT !.bw = w, !.bh = h]
  /\ UNCHANGED << diskVars, rotVars, argVars, scaleVars, outVars, histVars, pc,
                  faults >>

\* captureScreen, to its first await (fs.access in ensureDirectoryExists)
captureScreen(p, env) ==
  /\ CanCall(p)
  /\ advances < env.lim
  /\ \E fmt \in env.formats : BeginCall(p, "screen", NoRegion, fmt)
  /\ AdvanceRotator(p, 0)
  /\ pc' = [pc EXCEPT ![p] = "access"]
  /\ UNCHANGED << display, diskVars, anyFailed, faults >>

\* Faulty variant of captureRegion: the counter is advanced when the call
\* begins, as captureScreen's first statement does.
captureRegionAdvanceFirst(p, env) ==
  /\ CanCall(p)
  /\ advances < env.lim
  /\ \E r \in env.regions, fmt \in env.formats : BeginCall(p, "region", r, fmt)
  /\ AdvanceRotator(p, 0)
  /\ pc' = [pc EXCEPT ![p] = "baseWidth"]
  /\ UNCHANGED << display, diskVars, anyFailed, faults >>

\* captureRegion, to its first await (screen.width in getActualScreenDimensions)
captureRegion(p, env) ==
  /\ CanCall(p)
  /\ advances < env.lim
  /\ \E r \in env.regions, fmt \in env.formats : BeginCall(p, "region", r, fmt)
  /\ filename' = [filename EXCEPT ![p] = <<>>]
  /\ seq' = [seq EXCEPT ![p] = 0]
  /\ incs' = [incs EXCEPT ![p] = 0]
  /\ pc' = [pc EXCEPT ![p] = "baseWidth"]
  /\ UNCHANGED << display, diskVars, screenshotCounter, advances, anyFailed,
                  faults >>

\* const baseWidth = await screen.width(), to the await of screen.height()
BaseWidth(p, env) ==
  /\ pc[p] = "baseWidth"
  /\ \/ /\ dims' = [dims EXCEPT ![p].width = display.bw]
        /\ pc' = [pc EXCEPT ![p] = "baseHeight"]
        /\ UNCHANGED << error, faults >>
     \/ /\ Fault(env)
        /\ Fail(p, Err("screen"))
        /\ UNCHANGED dims
  /\ UNCHANGED << display, diskVars, rotVars, argVars, scaledRegion, seen,
                  filepath, result, histVars >>

\* const baseHeight = await screen.height(): on darwin to the await of the
\* import, elsewhere to the return of width, height and scale 1
BaseHeight(p, env) ==
  /\ pc[p] = "baseHeight"
  /\ \/ /\ dims' = [dims EXCEPT ![p] =
                      IF display.darwin
                        THEN [@ EXCEPT !.height = display.bh]
                        ELSE ActualDimensions(display, @.width, display.bh, FALSE)]
        /\ pc' = [pc EXCEPT ![p] = IF display.darwin THEN "import" ELSE "dimensions"]
        /\ UNCHANGED << error, faults >>
     \/ /\ Fault(env)
        /\ Fail(p, Err("screen"))
        /\ UNCHANGED dims
  /\ UNCHANGED << display, diskVars, rotVars, argVars, scaledRegion, seen,
                  filepath, result, histVars >>

\* await import("node:child_process"), execSync, the match and the return;
\* a throw of the import or of execSync is caught and gives scale 1
Probe(p, env) ==
  /\ pc[p] = "import"
  /\ \/ /\ dims' = [dims EXCEPT ![p] =
                      ActualDimensions(display, @.width, @.height, FALSE)]
        /\ UNCHANGED faults
     \/ /\ Fault(env)
        /\ dims' = [dims EXCEPT ![p] =
                      ActualDimensions(display, @.width, @.height, TRUE)]
  /\ pc' = [pc EXCEPT ![p] = "dimensions"]
  /\ UNCHANGED << display, diskVars, rotVars, argVars, scaledRegion, seen,
                  outVars, histVars >>

\* Faulty variant of ScaleAndValidate: the checks throw nothing.
ScaleAndValidateNoThrow(p, env) ==
  /\ pc[p] = "dimensions"
  /\ scaledRegion' = [scaledRegion EXCEPT ![p] = ScaleRegion(region[p], dims[p])]
  /\ pc' = [pc EXCEPT ![p] = "screenWidth"]
  /\ UNCHANGED << display, diskVars, rotVars, argVars, dims, seen, outVars,
                  histVars, faults >>

\* captureRegion from the answer of getActualScreenDimensions: scaledRegion,
\* the two checks on it, to the await of screen.width()
ScaleAndValidate(p, env) ==
  /\ pc[p] = "dimensions"
  /\ LET sr == ScaleRegion(region[p], dims[p])
         e == SignError(sr)
     IN  /\ scaledRegion' = [scaledRegion EXCEPT ![p] = sr]
         /\ IF e # NoError
              THEN Fail(p, e)
              ELSE /\ pc' = [pc EXCEPT ![p] = "screenWidth"]
                   /\ UNCHANGED error
  /\ UNCHANGED << display, diskVars, rotVars, argVars, dims, seen, filepath,
                  result, histVars, faults >>

\* if (scaledRegion.left + scaledRegion.width > (await screen.width())),
\* to the await of screen.height()
CheckWidth(p, env) ==
  /\ pc[p] = "screenWidth"
  /\ \/ /\ seen' = [seen EXCEPT ![p].width = display.bw]
        /\ LET e == WidthError(region[p], scaledRegion[p], dims[p], display.bw)
           IN  IF e # NoError
                 THEN Fail(p, e)
                 ELSE /\ pc' = [pc EXCEPT ![p] = "screenHeight"]
                      /\ UNCHANGED error
        /\ UNCHANGED faults
     \/ /\ Fault(env)
        /\ Fail(p, Err("screen"))
        /\ UNCHANGED seen
  /\ UNCHANGED << display, diskVars, rotVars, argVars, dims, scaledRegion,
                  filepath, result, histVars >>

\* if (scaledRegion.top + scaledRegion.height > (await screen.height())),
\* then the counter and the filename, to the await of fs.access
CheckHeight(p, env) ==
  /\ pc[p] = "screenHeight"
  /\ \/ /\ seen' = [seen EXCEPT ![p].height = display.bh]
        /\ LET e == HeightError(region[p], scaledRegion[p], dims[p], display.bh)
           IN  IF e # NoError
                 THEN /\ Fail(p, e)
                      /\ UNCHANGED rotVars
                 ELSE /\ advances < env.lim
                      /\ AdvanceRotator(p, incs[p])
                      /\ pc' = [pc EXCEPT ![p] = "access"]
                      /\ UNCHANGED error
        /\ UNCHANGED faults
     \/ /\ Fault(env)
        /\ Fail(p, Err("screen"))
        /\ UNCHANGED << seen, rotVars >>
  /\ UNCHANGED << display, diskVars, argVars, dims, scaledRegion, filepath,
                  result, histVars >>

\* await fs.access(dir): the directory is there and ensureDirectoryExists
\* returns (its caller resumes in a later step), or the access rejects and
\* the catch calls fs.mkdir
FsAccess(p, env) ==
  /\ pc[p] = "access"
  /\ \/ /\ pc' = [pc EXCEPT ![p] = IF dirExists THEN "ensured" ELSE "mkdir"]
        /\ UNCHANGED faults
     \/ /\ Fault(env)
        /\ pc' = [pc EXCEPT ![p] = "mkdir"]
  /\ UNCHANGED << display, diskVars, rotVars, argVars, scaleVars, outVars,
                  histVars >>

\* await fs.mkdir(dir, { recursive: true }): creates the directory (no error
\* when another call created it meanwhile) and ensureDirectoryExists returns
\* (its caller resumes in a later step), or rejects
FsMkdir(p, env) ==
  /\ pc[p] = "mkdir"
  /\ \/ /\ dirExists' = TRUE
        /\ pc' = [pc EXCEPT ![p] = "ensured"]
        /\ UNCHANGED << error, faults >>
     \/ /\ Fault(env)
        /\ Fail(p, Err("mkdir"))
        /\ UNCHANGED dirExists
  /\ UNCHANGED << display, files, rotVars, argVars, scaleVars, filepath, result,
                  histVars >>

ensureDirectoryExists(p, env) == FsAccess(p, env) \/ FsMkdir(p, env)

\* The caller resumes from await ensureDirectoryExists(screenshotDir):
\* captureScreen calls screen.width(); captureRegion builds nutRegion and
\* calls the capture primitive
Ensured(p, env) ==
  /\ pc[p] = "ensured"
  /\ IF op[p] = "screen"
       THEN /\ pc' = [pc EXCEPT ![p] = "width"]
            /\ UNCHANGED invoked
       ELSE /\ pc' = [pc EXCEPT ![p] = "capture"]
            /\ invoked' = [invoked EXCEPT ![p] = @ + 1]
  /\ UNCHANGED << display, diskVars, rotVars, argVars, scaleVars, outVars,
                  partialWrite, cleanupTried, anyFailed, faults >>

\* captureScreen: const width = await screen.width()
ScreenWidth(p, env) ==
  /\ pc[p] = "width"
  /\ \/ /\ dims' = [dims EXCEPT ![p].width = display.bw]
        /\ pc' = [pc EXCEPT ![p] = "height"]
        /\ UNCHANGED << error, faults >>
     \/ /\ Fault(env)
        /\ Fail(p, Err("screen"))
        /\ UNCHANGED dims
  /\ UNCHANGED << display, diskVars, rotVars, argVars, scaledRegion, seen,
                  filepath, result, histVars >>

\* captureScreen: const height = await screen.height(), then the call of
\* the capture primitive with fullScreenRegion
ScreenHeight(p, env) ==
  /\ pc[p] = "height"
  /\ \/ /\ dims' = [dims EXCEPT ![p].height = display.bh]
        /\ invoked' = [invoked EXCEPT ![p] = @ + 1]
        /\ pc' = [pc EXCEPT ![p] = "capture"]
        /\ UNCHANGED << error, faults >>
     \/ /\ Fault(env)
        /\ Fail(p, Err("screen"))
        /\ UNCHANGED << dims, invoked >>
  /\ UNCHANGED << display, diskVars, rotVars, argVars, scaledRegion, seen,
                  filepath, result, partialWrite, cleanupTried, anyFailed >>

\* The rectangle handed to screen.captureRegion: fullScreenRegion or nutRegion
CaptureRect(p) ==
  IF op[p] = "screen"
    THEN [left |-> 0, top |-> 0, width |-> dims[p].width,
          height |-> dims[p].height]
    ELSE scaledRegion[p]

\* Faulty variant of CaptureName: the name is derived from the shared
\* counter when the primitive is called, after the awaits that follow the
\* increment.
CaptureNameShared(p) == Filename(screenshotCounter)

\* The name handed to screen.captureRegion: the local const filename
CaptureName(p) == filename[p]

\* The path screen.captureRegion writes and returns
StagedPath(p) == [name |-> CaptureName(p), ext |-> FileTypeOf(format[p])]

\* The capture primitive, called in the step before, completes:
\* filepath = await screen.captureRegion(filename, region, fileType,
\* screenshotDir).  It writes the file and returns its path, or throws,
\* having written a file or not
Capture(p, env) ==
  /\ pc[p] = "capture"
  /\ \/ /\ files' = WriteFile(files, StagedPath(p), seq[p])
        /\ filepath' = [filepath EXCEPT ![p] = StagedPath(p)]
        /\ pc' = [pc EXCEPT ![p] = "read"]
        /\ UNCHANGED << error, partialWrite, faults >>
     \/ /\ Fault(env)
        /\ \E wrote \in env.leaves :
             /\ files' = IF wrote THEN WriteFile(files, StagedPath(p), seq[p])
                         ELSE files
             /\ partialWrite' = [partialWrite EXCEPT ![p] = wrote]
        /\ Fail(p, Err("capture"))
        /\ UNCHANGED filepath
  /\ UNCHANGED << display, dirExists, rotVars, argVars, scaleVars, result,
                  invoked, cleanupTried, anyFailed >>

\* await fs.readFile(filepath)
ReadFile(p, env) ==
  /\ pc[p] = "read"
  /\ \/ /\ Exists(files, filepath[p])
        /\ pc' = [pc EXCEPT ![p] = "unlink"]
        /\ UNCHANGED << error, faults >>
     \/ /\ ~Exists(files, filepath[p])
        /\ Fail(p, Err("read"))
        /\ UNCHANGED faults
     \/ /\ Exists(files, filepath[p])
        /\ Fault(env)
        /\ Fail(p, Err("read"))
  /\ UNCHANGED << display, diskVars, rotVars, argVars, scaleVars, filepath,
                  result, histVars >>

\* Faulty variant of Unlink: the call returns without the unlink.
UnlinkForgotten(p, env) ==
  /\ pc[p] = "unlink"
  /\ pc' = [pc EXCEPT ![p] = "returned"]
  /\ result' = [result EXCEPT ![p] =
                  [prefix |-> "File saved as ", message |-> NoError]]
  /\ EndCall(p)
  /\ UNCHANGED << display, diskVars, screenshotCounter, advances, incs, op,
                  histVars, faults >>

\* await fs.unlink(filepath) in the try block, then the return
Unlink(p, env) ==
  /\ pc[p] = "unlink"
  /\ \/ /\ Exists(files, filepath[p])
        /\ files' = Remove(files, filepath[p])
        /\ pc' = [pc EXCEPT ![p] = "returned"]
        /\ result' = [result EXCEPT ![p] =
                        [prefix |-> "File saved as ", message |-> NoError]]
        /\ EndCall(p)
        /\ UNCHANGED faults
     \/ /\ ~Exists(files, filepath[p])
        /\ Fail(p, Err("unlink"))
        /\ UNCHANGED << files, result, faults, region, scaleVars, format,
                        filename, filepath, seq >>
     \/ /\ Exists(files, filepath[p])
        /\ Fault(env)
        /\ Fail(p, Err("unlink"))
        /\ UNCHANGED << files, result, region, scaleVars, format, filename,
                        filepath, seq >>
  /\ UNCHANGED << display, dirExists, screenshotCounter, advances, incs, op,
                  histVars >>

\* The throw at the end of the catch block
Throw(p, cleanupFailed) ==
  /\ result' = [result EXCEPT ![p] =
                  [prefix |-> Prefix(op[p]),
                   message |-> CleanupMessage(error[p], cleanupFailed)]]
  /\ pc' = [pc EXCEPT ![p] = "thrown"]
  /\ anyFailed' = TRUE
  /\ EndCall(p)

\* The catch block: if (filepath) { try { await fs.unlink(filepath) } catch {} }
Catch(p, env) ==
  /\ pc[p] = "catch"
  /\ \/ /\ filepath[p] = NoPath
        /\ Throw(p, FALSE)
        /\ UNCHANGED << files, cleanupTried, faults >>
     \/ /\ filepath[p] # NoPath
        /\ Exists(files, filepath[p])
        /\ files' = Remove(files, filepath[p])
        /\ cleanupTried' = [cleanupTried EXCEPT ![p] = TRUE]
        /\ Throw(p, FALSE)
        /\ UNCHANGED faults
     \/ /\ filepath[p] # NoPath
        /\ ~Exists(files, filepath[p])
        /\ cleanupTried' = [cleanupTried EXCEPT ![p] = TRUE]
        /\ Throw(p, TRUE)
        /\ UNCHANGED << files, faults >>
     \/ /\ filepath[p] # NoPath
        /\ Exists(files, filepath[p])
        /\ Fault(env)
        /\ cleanupTried' = [cleanupTried EXCEPT ![p] = TRUE]
        /\ Throw(p, TRUE)
        /\ UNCHANGED files
  /\ UNCHANGED << display, dirExists, screenshotCounter, advances, incs, op,
                  invoked, partialWrite >>

\* ------------------------------------------------------------ specifications

Step(p, env) ==
  \/ captureScreen(p, env)
  \/ captureRegion(p, env)
  \/ BaseWidth(p, env)
  \/ BaseHeight(p, env)
  \/ Probe(p, env)
  \/ ScaleAndValidate(p, env)
  \/ CheckWidth(p, env)
  \/ CheckHeight(p, env)
  \/ ensureDirectoryExists(p, env)
  \/ Ensured(p, env)
  \/ ScreenWidth(p, env)
  \/ ScreenHeight(p, env)
  \/ Capture(p, env)
  \/ ReadFile(p, env)
  \/ Unlink(p, env)
  \/ Catch(p, env)

\* Two tasks interleaved at their awaits, over more than one counter cycle.
\* The resolution stays as it is, and the screen queries, the capture
\* primitive and the file system fail only by themselves: a file another
\* call removed is not there to read or to unlink.
SpecEnv == Env(SpecRegions, {"png"}, MaxAdvances, 0, {FALSE})

Next == \E p \in Tasks : Step(p, SpecEnv)

Spec == Init /\ [][Next]_vars

\* One task, every region and display of the bounds, and a logical
\* resolution that may change at any time, between two awaits of a call too.
ResolveEnv == Env(AllRegions, {"png"}, MaxResolveAdvances, 0, {FALSE})

NextResolve == Step(1, ResolveEnv) \/ ChangeResolution

SpecResolve == InitResolve /\ [][NextResolve]_vars

\* Two tasks, and an environment that injects failures: the screen queries
\* and mkdir reject, the resolution probe throws, the capture primitive
\* throws, having written a file or not, and readFile and unlink throw on a
\* file that is there.
FaultsEnv == Env(SpecRegions, Formats, MaxFaultAdvances, MaxFaults, BOOLEAN)

NextFaults == \E p \in Tasks : Step(p, FaultsEnv)

SpecFaults == Init /\ [][NextFaults]_vars

\* ------------------------------------------------------------ properties

\* The call of p has advanced the counter and has not ended.
Holding(p) ==
  /\ seq[p] > 0
  /\ pc[p] \in {"access", "mkdir", "ensured", "width", "height", "capture",
                "read", "unlink", "catch"}

\* The call of p is between its counter increment and its file write.
BeforeWrite(p) ==
  pc[p] \in {"access", "mkdir", "ensured", "width", "height", "capture"}

\* The staged name the call of p holds: that of the path the primitive
\* returned, and before that the name it will hand to the primitive.
HeldName(p) == IF filepath[p] # NoPath THEN filepath[p].name ELSE CaptureName(p)

\* The two digits of n in 1..99, tens first.
TwoDigits(n) == << n \div 10, n % 10 >>

\* The call of p failed with an error of the given kinds.
FailedWith(p, kinds) ==
  \/ pc[p] = "catch" /\ error[p].kind \in kinds
  \/ pc[p] = "thrown" /\ result[p].message.kind \in kinds

\* The captureRegion call of p is resolving the screen size or validating.
Validating(p) ==
  pc[p] \in {"baseWidth", "baseHeight", "import", "dimensions", "screenWidth",
             "screenHeight"}

\* The scaled rectangle r lies within the size the resolution probe gave.
InPhysicalBounds(r, dm) ==
  /\ r.left >= 0 /\ r.top >= 0 /\ r.width > 0 /\ r.height > 0
  /\ r.left + r.width <= dm.width
  /\ r.top + r.height <= dm.height

\* The scaled rectangle r passes the four checks, on the answers sz of the
\* two screen queries awaited in them.
PassesChecks(r, sz) ==
  /\ r.left >= 0 /\ r.top >= 0 /\ r.width > 0 /\ r.height > 0
  /\ r.left + r.width <= sz.width
  /\ r.top + r.height <= sz.height

\* C1: the k-th advance of the rotator, by captureScreen or captureRegion,
\* leaves the counter at ((k-1) mod 20)+1 and gives the call the two-digit
\* zero-padded name of that number: 01..20 in order, then 01 again.
C1_RotationOrder ==
  /\ screenshotCounter =
       IF advances = 0 THEN 0 ELSE ((advances - 1) % MAX_SCREENSHOTS) + 1
  /\ \A p \in Tasks :
       Holding(p) =>
         filename[p] = TwoDigits(((seq[p] - 1) % MAX_SCREENSHOTS) + 1)

\* C1 witness: the 21st advance, made while the other task holds another
\* name, uses 01 again.
C1_Witness ==
  \E p \in Tasks :
    Holding(p) /\ seq[p] = MAX_SCREENSHOTS + 1 /\ filename[p] = <<0, 1>>

\* C2 as stated: every call that has begun has advanced the counter exactly
\* once, before anything else in the call.
C2_Original == \A p \in Tasks : pc[p] # "idle" => incs[p] = 1

\* C2 amended: captureScreen advances the counter exactly once, before
\* anything else; captureRegion advances it exactly once only after the
\* screen size was resolved and the region passed the four checks, and
\* before the directory is ensured and the capture primitive invoked; a
\* captureRegion call that is still resolving or validating, or that failed
\* there (a check, or a screen query that rejected), has not advanced it.
C2_AdvanceAfterValidation ==
  \A p \in Tasks :
    /\ op[p] = "screen" => incs[p] = 1
    /\ op[p] = "region" =>
         incs[p] = IF Validating(p)
                        \/ FailedWith(p, ValidationKinds \cup {"screen"})
                     THEN 0 ELSE 1
    /\ invoked[p] > 0 => incs[p] = 1

\* C2 witness: a captureRegion call failed validation after another call
\* advanced the counter, and did not advance it itself.
C2_Witness ==
  \E p \in Tasks :
    /\ op[p] = "region" /\ pc[p] = "thrown" /\ FailedWith(p, ValidationKinds)
    /\ incs[p] = 0 /\ advances > 0

\* C3: every rectangle captureRegion is about to hand to the capture
\* primitive lies within the physical screen size the probe reported to the
\* call.
C3_HandedRectInPhysicalBounds ==
  \A p \in Tasks :
    op[p] = "region" /\ pc[p] = "capture" =>
      InPhysicalBounds(CaptureRect(p), dims[p])

\* C4: a region whose scaled rectangle lies within the physical screen size
\* the probe reported to the call raises no validation error.
C4_InBoundsAccepted ==
  \A p \in Tasks :
    op[p] = "region" /\ pc[p] = "catch" /\ error[p].kind \in ValidationKinds =>
      ~InPhysicalBounds(scaledRegion[p], dims[p])

\* C5: a captureRegion call whose region has left = -1 fails with the
\* negative-coordinate error once it has scaled the region, whatever the
\* other fields, the screen size and the display scale.
C5_MinusOneRejected ==
  \A p \in Tasks :
    /\ op[p] = "region" /\ region[p].left = -1
    /\ pc[p] \notin {"baseWidth", "baseHeight", "import", "dimensions"}
    => pc[p] = "catch" /\ error[p].kind = "negative"

\* C6 as stated: when the call fails after the primitive began to write or
\* returned the staged path, the catch block attempts the unlink and the
\* error thrown carries the message of the capture or of the read.
C6_Original ==
  [][\A p \in Tasks :
       pc[p] = "catch" /\ pc'[p] = "thrown"
         /\ (partialWrite[p] \/ filepath[p] # NoPath)
       => cleanupTried'[p] /\ result'[p].message.kind \in {"capture", "read"}]_vars

\* C6 amended: the catch block attempts the unlink exactly when the
\* primitive had returned the staged path (not when the primitive threw,
\* even after writing), and the error thrown carries the message of the
\* step that failed in the try block (a screen query, a check of the region,
\* mkdir, the capture, the read, or the unlink after the read), never that
\* of the unlink in the catch block.
C6_CleanupKeepsOriginalError ==
  [][\A p \in Tasks :
       pc[p] = "catch" /\ pc'[p] = "thrown"
       => /\ cleanupTried'[p] <=> filepath[p] # NoPath
          /\ error[p] # NoError
          /\ result'[p].message = error[p]]_vars

\* C6 witness: a call failed at its read with the staged path known, the
\* catch block attempted the unlink, and the error thrown is the read's.
C6_Witness ==
  \E p \in Tasks :
    /\ pc[p] = "thrown" /\ cleanupTried[p]
    /\ result[p].message.kind = "read"

\* C7: a captureRegion call that raised one of the four validation errors
\* has not invoked the capture primitive (so has not retried it either), has
\* written no file, has no staged path and took no name; and a call that
\* went past the checks holds a rectangle that passes all four of them on
\* the answers the screen queries gave it.
C7_RejectedBeforeCapture ==
  \A p \in Tasks :
    op[p] = "region" =>
      /\ FailedWith(p, ValidationKinds) => invoked[p] = 0 /\ ~partialWrite[p]
      /\ pc[p] = "catch" /\ error[p].kind \in ValidationKinds
           => filepath[p] = NoPath /\ seq[p] = 0
      /\ \/ pc[p] \in {"access", "mkdir", "ensured", "capture", "read",
                      "unlink"}
         \/ invoked[p] > 0 /\ pc[p] = "catch"
         => PassesChecks(scaledRegion[p], seen[p])

\* C7 witness: a call is in its catch block with an out-of-bounds error.
C7_Witness ==
  \E p \in Tasks :
    pc[p] = "catch" /\ error[p].kind \in {"width", "height"} /\ invoked[p] = 0

\* C8: when no call is in flight and no call has failed, the staging
\* directory holds no staged file.
C8_NoStagedFileLeft ==
  (\A p \in Tasks : CanCall(p)) /\ ~anyFailed => files = {}

\* C8 witness: both tasks have returned results, past a full counter
\* cycle, and no call has failed.
C8_Witness ==
  /\ \A p \in Tasks : pc[p] = "returned"
  /\ ~anyFailed
  /\ advances > MAX_SCREENSHOTS

\* The interleaving C9 names: the call of p is suspended between its counter
\* increment and its file write, and the call of q, in flight too, made the
\* very next advance of the counter during that suspension (no third call
\* advanced it between them).
RaceScenario(p, q) ==
  /\ p # q /\ Holding(p) /\ BeforeWrite(p) /\ Holding(q)
  /\ seq[q] = seq[p] + 1

C10_NamesApart ==
  \A p, q \in Tasks :
    p # q /\ Holding(p) /\ Holding(q) /\ HeldName(p) = HeldName(q)
    => seq[p] # seq[q] /\ (seq[p] - seq[q]) % MAX_SCREENSHOTS = 0

\* C10, files: a step of task p removes or overwrites a file another call
\* wrote only if a multiple of 20 advances separates the two calls.
C10_ClobberApart ==
  \A p \in Tasks : \A f \in files :
    pc'[p] # pc[p] /\ f \notin files' /\ f.by # seq[p]
    => (seq[p] - f.by) % MAX_SCREENSHOTS = 0

\* C10: under any interleaving, two calls in flight hold the same staged
\* name only if a multiple of 20 counter advances separates theirs (so never
\* with fewer than 19 other advances between them), and a call's staged
\* file is overwritten or removed by another call only after such a full
\* cycle of the counter.
C10_SameNameOnlyAfterFullCycle ==
  [](C10_NamesApart) /\ [][C10_ClobberApart]_vars

\* C10 witness: two calls in flight hold the same name, 20 advances apart.
C10_Witness ==
  \E p, q \in Tasks :
    /\ p # q /\ Holding(p) /\ Holding(q)
    /\ HeldName(p) = HeldName(q)
    /\ seq[q] = seq[p] + MAX_SCREENSHOTS

====
